---- MODULE Spec2Model ----
(***************************************************************************)
(* Model of mmwave-spi-ftdi-reader: SpiFtdiFrameReader (the chunked,       *)
(* SPI_BUSY-gated frame acquisition) and RadarCubeReader (the iterator     *)
(* facade that parses frames into radar cubes and closes on failure).      *)
(*                                                                         *)
(* A client either drives a RadarCubeReader (client = "cube") or a bare    *)
(* SpiFtdiFrameReader (client = "frame"); both are public classes.  The    *)
(* FTDI device is the environment: every pin read and bus read draws its   *)
(* outcome from a small set, and the bytes on the bus are the stream       *)
(* WireByte(seed, 0), WireByte(seed, 1), ...                               *)
(***************************************************************************)
EXTENDS Integers, Sequences, FiniteSets, TLC

\* ------------------------------------------------------------- bounds
\* Number of __iter__/__next__ calls the client issues in one behaviour.
MaxCalls == 2

\* ------------------------------------------------- program constants
SPI_BUSY_ADBUS_PIN_INDEX == 4
SPI_BUSY_PIN_MASK == 2 ^ SPI_BUSY_ADBUS_PIN_INDEX
DEFAULT_MAX_CHUNK_SIZE == 65024

\* ------------------------------------------------------------ inputs
TxValues == {0, 1, 2}
RxValues == {1, 2}
RangeBinValues == {3, 4}
ChirpValues == {1, 2}
ChunkValues == {-4, 0, 4, 6, 12, DEFAULT_MAX_CHUNK_SIZE}
FrameLengthValues == {-4, 0, 4, 6, 8, 16}
Seeds == {3, 250}
\* Values gpio.read() can return: bit 4 is SPI_BUSY, the other bits are noise.
PinValues == {0, 16, 239, 255}

CubeArgs ==
    [num_tx_antennas : TxValues, num_rx_antennas : RxValues,
     num_range_bins : RangeBinValues, num_chirps_per_frame : ChirpValues,
     frame_length : {0}, max_chunk_size : ChunkValues]

FrameArgs ==
    [num_tx_antennas : {1}, num_rx_antennas : {1},
     num_range_bins : {4}, num_chirps_per_frame : {1},
     frame_length : FrameLengthValues, max_chunk_size : ChunkValues]

Threads == {"main", "closer"}

\* RadarCube1D arguments: the timestamp (given or None), the number of
\* dimensions of the data array; and the values time.time() can return.
TimestampValues == {0, 1, 2, 3, 7}
TimestampArgs ==
    {[given |-> FALSE, value |-> 0]}
      \cup [given : {TRUE}, value : TimestampValues]
NdimValues == {2, 3}
ClockValues == {5, 6, 8, 9}

\* ------------------------------------------------------------- state
VARIABLES
    client,             \* "cube": RadarCubeReader; "frame": bare SpiFtdiFrameReader
    args,               \* constructor arguments
    seed,               \* selects the byte stream the sensor sends
    \* RadarCubeReader fields
    _spi_reader, radar_cube_n_bytes, dims,
    \* SpiFtdiFrameReader fields
    frame_length, max_chunk_size, _spi, _port, _gpio_port,
    \* the FTDI device (SpiController) and the sensor's byte stream
    spi_state, terminate_calls, busPos,
    \* control: position of each thread, locals of the running call
    pc, remaining_bytes, frame_data, raw_frame_bytes, pending, close_raised,
    \* what the client saw from its last call
    result, cube,
    \* history of the running / last call (observations, not program state)
    op, calls, ioTick, lastIO, sawBusy, nPinLow, nBusReads, startPos, ioFault,
    requested, origin, sfrOutcome, sfrFailed, rcrFailed, stopIterations,
    \* a RadarCube1D under construction: its arguments, the clock, the object
    rc_pc, timestamp, interleaved, data_ndim, now, data_dims, data_name,
    data_attrs,
    \* the examples: the shared dictionary, its lock, the reader thread and the
    \* plotting callback (position and locals), and the frames published so far
    shared_data_state, frame_lock, spi_read_thread, update_plot, published

cfgVars == <<client, args, seed>>
rcrVars == <<_spi_reader, radar_cube_n_bytes, dims>>
sfrCfg == <<frame_length, max_chunk_size>>
sfrHandles == <<_spi, _port, _gpio_port>>
devVars == <<spi_state, terminate_calls>>
localVars == <<remaining_bytes, frame_data>>
ioHist == <<ioTick, lastIO, sawBusy, nPinLow, nBusReads, ioFault, requested>>

vars == <<client, args, seed, _spi_reader, radar_cube_n_bytes, dims,
          frame_length, max_chunk_size, _spi, _port, _gpio_port,
          spi_state, terminate_calls, busPos,
          pc, remaining_bytes, frame_data, raw_frame_bytes, pending, close_raised,
          result, cube,
          op, calls, ioTick, lastIO, sawBusy, nPinLow, nBusReads, startPos,
          ioFault, requested, origin, sfrOutcome, sfrFailed, rcrFailed,
          stopIterations,
          rc_pc, timestamp, interleaved, data_ndim, now, data_dims, data_name,
          data_attrs,
          shared_data_state, frame_lock, spi_read_thread, update_plot,
          published>>

\* The state of the two readers, and the state of a RadarCube1D construction.
readerVars == <<client, args, seed, _spi_reader, radar_cube_n_bytes, dims,
                frame_length, max_chunk_size, _spi, _port, _gpio_port,
                spi_state, terminate_calls, busPos,
                pc, remaining_bytes, frame_data, raw_frame_bytes, pending,
                close_raised, result, cube,
                op, calls, ioTick, lastIO, sawBusy, nPinLow, nBusReads, startPos,
                ioFault, requested, origin, sfrOutcome, sfrFailed, rcrFailed,
                stopIterations>>
rcArgs == <<timestamp, interleaved, data_ndim, now>>
rcObject == <<data_dims, data_name, data_attrs>>
rcVars == <<rc_pc, timestamp, interleaved, data_ndim, now, data_dims, data_name,
            data_attrs>>
demoVars == <<shared_data_state, frame_lock, spi_read_thread, update_plot,
              published>>

\* ------------------------------------------------------ pure helpers
Min(a, b) == IF a <= b THEN a ELSE b

CeilDiv(a, b) == (a + b - 1) \div b

\* Python's a & b on non-negative integers.
RECURSIVE BitAnd(_, _)
BitAnd(a, b) ==
    IF a = 0 \/ b = 0 THEN 0
    ELSE (a % 2) * (b % 2) + 2 * BitAnd(a \div 2, b \div 2)

\* The byte the sensor puts on the bus at stream position p.
WireByte(s, p) == (s + 7 * p) % 256

\* What port.read returns when it delivers n bytes from position pos.
StreamBytes(s, pos, n) == [i \in 1 .. n |-> WireByte(s, pos + i - 1)]

\* The level of the SPI_BUSY line in a pin word, as the hardware sees it.
BusyLineLow(gpio_state) == (gpio_state \div 16) % 2 = 0

\* ------------------------------------------- SpiFtdiFrameReader: pure parts
\* Mutant of IsReady: the mask of ADBUS3 instead of ADBUS4.
IsReadyWrongBit(gpio_state) == BitAnd(gpio_state, 2 ^ 3) = 0

\* Mutant of IsReady: the loop leaves on the first pin read, whatever it saw.
IsReadyAlways(gpio_state) == TRUE

\* (gpio_state & SPI_BUSY_PIN_MASK) == 0: the pin is low, data is ready.
IsReady(gpio_state) == BitAnd(gpio_state, SPI_BUSY_PIN_MASK) = 0

\* Mutant of ChunkSize: one 4-byte SPI transaction per read.
ChunkSizeOneLane(remaining, mcs) == Min(remaining, 4)

\* Mutant of ChunkSize: the whole remainder is asked for in one read.
ChunkSizeWholeFrame(remaining, mcs) == remaining

\* chunk_size = min(remaining_bytes, self.max_chunk_size)
ChunkSize(remaining, mcs) == Min(remaining, mcs)

\* Mutant of ChunkAccepted: the size comparison is missing.
ChunkNotEmpty(chunk, chunk_size) == Len(chunk) # 0

\* The two checks on the chunk port.read returned: not empty, and of the
\* requested size.
ChunkAccepted(chunk, chunk_size) == Len(chunk) # 0 /\ Len(chunk) = chunk_size

\* for i in range(0, chunk_size, 4): append chunk[i+3], chunk[i+2], chunk[i+1],
\* chunk[i]  (i is the 0-based offset; sequences are 1-based).
RECURSIVE LaneSwapFrom(_, _, _)
LaneSwapFrom(chunk, i, chunk_size) ==
    IF i >= chunk_size THEN <<>>
    ELSE <<chunk[i + 4], chunk[i + 3], chunk[i + 2], chunk[i + 1]>>
         \o LaneSwapFrom(chunk, i + 4, chunk_size)

\* Mutant of LaneSwap: the bytes are swapped within each 16-bit half, [C,D,A,B].
LaneSwapPairs(chunk, chunk_size) ==
    [i \in 1 .. chunk_size |-> chunk[IF i % 2 = 1 THEN i + 1 ELSE i - 1]]

\* Mutant of LaneSwap: the whole chunk is reversed, not each group of four.
LaneSwapWholeChunk(chunk, chunk_size) ==
    [k \in 1 .. chunk_size |-> chunk[chunk_size + 1 - k]]

LaneSwap(chunk, chunk_size) == LaneSwapFrom(chunk, 0, chunk_size)

\* What the transport setup in SpiFtdiFrameReader.__init__ can meet: the step
\* that raises (or none), whether it raises UsbToolsError, and whether the
\* terminate() of the cleanup raises too.
SfrInitEnv ==
    [failAt : {"none", "configure", "get_port", "get_gpio", "set_direction"},
     usb : BOOLEAN, termRaises : BOOLEAN]

\* Mutant of SfrInit: the divisibility checks run after the transport setup.
SfrInitValidatesLate(fl, mcs, e) ==
    IF e.failAt = "none"
    THEN [exc |-> IF fl % 4 # 0 \/ mcs % 4 # 0 THEN "ValueError" ELSE "none",
          spi_state |-> "open", terminated |-> 0]
    ELSE IF e.usb
    THEN [exc |-> "UsbToolsError",
          spi_state |-> IF e.failAt = "configure" THEN "absent" ELSE "open",
          terminated |-> 0]
    ELSE [exc |-> IF e.termRaises THEN "Exception" ELSE "RuntimeError",
          spi_state |-> IF e.failAt = "configure" THEN "absent" ELSE "terminated",
          terminated |-> 1]

\* SpiFtdiFrameReader.__init__: the exception it raises ("none": constructed),
\* the state it leaves the controller in and the terminate() calls it made.
SfrInit(fl, mcs, e) ==
    IF fl % 4 # 0 \/ mcs % 4 # 0
    THEN [exc |-> "ValueError", spi_state |-> "absent", terminated |-> 0]
    ELSE IF e.failAt = "none"
    THEN [exc |-> "none", spi_state |-> "open", terminated |-> 0]
    ELSE IF e.usb
    THEN [exc |-> "UsbToolsError",
          spi_state |-> IF e.failAt = "configure" THEN "absent" ELSE "open",
          terminated |-> 0]
    ELSE [exc |-> IF e.termRaises THEN "Exception" ELSE "RuntimeError",
          spi_state |-> IF e.failAt = "configure" THEN "absent" ELSE "terminated",
          terminated |-> 1]

\* ---------------------------------------------- RadarCubeReader: pure parts
\* Mutant of ValidCubeArgs: the chirps-per-TX divisibility check is missing.
ValidCubeArgsNoChirpCheck(a) ==
    /\ ~(a.num_tx_antennas <= 0 \/ a.num_rx_antennas <= 0
         \/ a.num_range_bins <= 0 \/ a.num_chirps_per_frame <= 0)
    /\ a.num_range_bins % 4 = 0

\* The three validations at the top of RadarCubeReader.__init__.
ValidCubeArgs(a) ==
    /\ ~(a.num_tx_antennas <= 0 \/ a.num_rx_antennas <= 0
         \/ a.num_range_bins <= 0 \/ a.num_chirps_per_frame <= 0)
    /\ a.num_chirps_per_frame % a.num_tx_antennas = 0
    /\ a.num_range_bins % 4 = 0

DerivedDims(a) ==
    [num_range_bins |-> a.num_range_bins,
     num_virt_antennas |-> a.num_tx_antennas * a.num_rx_antennas,
     num_doppler_chirps |-> a.num_chirps_per_frame \div a.num_tx_antennas]

\* radar_cube_n_bytes = num_virt_antennas * num_range_bins * num_doppler_chirps * 4
CubeBytes(d) == d.num_virt_antennas * d.num_range_bins * d.num_doppler_chirps * 4

\* Mutant of Int16LE: the two bytes are taken big-endian.
Int16BE(lo, hi) ==
    LET u == hi + 256 * lo IN IF u >= 32768 THEN u - 65536 ELSE u

\* np.frombuffer(..., dtype=np.int16): two bytes, little-endian, signed.
Int16LE(lo, hi) ==
    LET u == lo + 256 * hi IN IF u >= 32768 THEN u - 65536 ELSE u

\* The complex sample at flat index j (0-based) of the frame: (real, imag).
SampleAt(frame, j) ==
    <<Int16LE(frame[4 * j + 1], frame[4 * j + 2]),
      Int16LE(frame[4 * j + 3], frame[4 * j + 4])>>

\* Mutant of ParseRejects: only a frame that is too short is rejected.
ParseRejectsShortOnly(frame, n_bytes, d) == Len(frame) < n_bytes

\* The length checks of _parse_frame: the byte count and the int16 count.
ParseRejects(frame, n_bytes, d) ==
    \/ Len(frame) # n_bytes
    \/ Len(frame) \div 2
         # d.num_doppler_chirps * d.num_virt_antennas * d.num_range_bins * 2

\* Mutant of ParseFrame: the transpose is missing, the cube stays in
\* (chirp, antenna, range) order.
ParseFrameNoTranspose(frame, d) ==
    [c \in 1 .. d.num_doppler_chirps |->
      [a \in 1 .. d.num_virt_antennas |->
        [r \in 1 .. d.num_range_bins |->
          SampleAt(frame,
                   ((c - 1) * d.num_virt_antennas + (a - 1)) * d.num_range_bins
                     + (r - 1))]]]

\* reshape to (chirp, antenna, range), then transpose to (range, antenna,
\* chirp): cube[r][a][c] is the sample at flat index (c * V + a) * R + r.
ParseFrame(frame, d) ==
    [r \in 1 .. d.num_range_bins |->
      [a \in 1 .. d.num_virt_antennas |->
        [c \in 1 .. d.num_doppler_chirps |->
          SampleAt(frame,
                   ((c - 1) * d.num_virt_antennas + (a - 1)) * d.num_range_bins
                     + (r - 1))]]]

\* Mutant of IsClosed: the closed test never fires.
IsClosedNever(reader) == FALSE

\* `self._spi_reader is None`, the closed test of __iter__ and __next__.
IsClosed(reader) == reader = "None"

\* ------------------------------------------------- RadarCube: pure parts
_DIMS_INTERLEAVED == <<"rangebin", "virt_antenna", "doppler_chirp">>
_DIMS_NON_INTERLEAVED == <<"chirp", "rx_antenna", "rangebin">>
_RADAR_CUBE_1D_XR_NAME == "radar_cube_1d"

\* Python's truth value of the timestamp argument: None and 0 are false.
Truthy(ts) == ts.given /\ ts.value # 0

\* current_timestamp = timestamp or time.time()
CurrentTimestamp(ts, clock) == IF Truthy(ts) THEN ts.value ELSE clock

\* RadarCube.__init__ as called by a subclass: the exception it raises, or the
\* DataArray it builds with 'timestamp' in its attrs.
RadarCube__init__(ndim, xr_dims, xdarr_name, ts, clock) ==
    IF ndim # Len(xr_dims)
    THEN [exc |-> "ValueError", dims |-> <<>>, name |-> "none",
          attrs |-> [keys |-> {}, timestamp |-> 0, interleaved |-> FALSE]]
    ELSE [exc |-> "none", dims |-> xr_dims, name |-> xdarr_name,
          attrs |-> [keys |-> {"timestamp"},
                     timestamp |-> CurrentTimestamp(ts, clock),
                     interleaved |-> FALSE]]

\* Mutant of RadarCube1D: the interleaved dimension names are used whatever
\* the flag says.
RadarCube1DInterleavedNames(ndim, il, ts, clock) ==
    LET r == RadarCube__init__(ndim, _DIMS_INTERLEAVED,
                               _RADAR_CUBE_1D_XR_NAME, ts, clock)
    IN IF r.exc # "none" THEN r
       ELSE [r EXCEPT !.attrs.keys = @ \cup {"interleaved"},
                      !.attrs.interleaved = il]

\* RadarCube1D.__init__ as a function of its arguments and the clock: choose
\* the dimension names by the flag, call RadarCube.__init__, add 'interleaved'
\* to the attrs.
RadarCube1D(ndim, il, ts, clock) ==
    LET dims_to_use == IF il THEN _DIMS_INTERLEAVED ELSE _DIMS_NON_INTERLEAVED
        r == RadarCube__init__(ndim, dims_to_use, _RADAR_CUBE_1D_XR_NAME,
                               ts, clock)
    IN IF r.exc # "none" THEN r
       ELSE [r EXCEPT !.attrs.keys = @ \cup {"interleaved"},
                      !.attrs.interleaved = il]

\* --------------------------------------------------------------- Init
NoDims == [num_range_bins |-> 0, num_virt_antennas |-> 0, num_doppler_chirps |-> 0]

\* None, for the entries of shared_data_state and the locals copied from
\* them: cube numbers and clock readings are positive.
DemoNone == 0

\* shared_data_state as the examples create it.
InitialSharedState ==
    [frame |-> DemoNone, timestamp |-> DemoNone, prev_timestamp |-> DemoNone,
     frame_count |-> 0]

\* The examples' two threads at a given position, with nothing in their locals.
ThreadAt(p) ==
    [pc |-> p, cube |-> 0, current_frame_timestamp |-> DemoNone,
     latest_frame_data |-> DemoNone]

PlotAt(p) ==
    [pc |-> p, current_frame_data |-> DemoNone, frame_timestamp |-> DemoNone,
     prev_timestamp |-> DemoNone, frame_count |-> 0]

\* No example program is running.
NoDemo ==
    /\ shared_data_state = InitialSharedState /\ frame_lock = "free"
    /\ spi_read_thread = ThreadAt("none") /\ update_plot = PlotAt("none")
    /\ published = <<>>

\* No RadarCube1D has been constructed; the clock reads some time.
NoCubeObject ==
    /\ rc_pc = "none" /\ timestamp = [given |-> FALSE, value |-> 0]
    /\ interleaved = TRUE /\ data_ndim = 3 /\ now \in {6}
    /\ data_dims = <<>> /\ data_name = "none"
    /\ data_attrs = [keys |-> {}, timestamp |-> 0, interleaved |-> FALSE]

Init ==
    /\ NoCubeObject
    /\ NoDemo
    /\ client \in {"cube", "frame"}
    /\ args \in (IF client = "cube" THEN CubeArgs ELSE FrameArgs)
    /\ seed \in Seeds
    /\ _spi_reader = "None" /\ radar_cube_n_bytes = 0 /\ dims = NoDims
    /\ frame_length = 0 /\ max_chunk_size = 0
    /\ _spi = "None" /\ _port = "None" /\ _gpio_port = "None"
    /\ spi_state = "absent" /\ terminate_calls = 0 /\ busPos = 0
    /\ pc = [t \in Threads |-> IF t = "main" THEN "new" ELSE "idle"]
    /\ remaining_bytes = 0 /\ frame_data = <<>> /\ raw_frame_bytes = <<>>
    /\ pending = "none" /\ close_raised = [t \in Threads |-> FALSE]
    /\ result = "none" /\ cube = <<>>
    /\ op = "none" /\ calls = 0 /\ ioTick = 0 /\ lastIO = "none"
    /\ sawBusy = FALSE /\ nPinLow = 0 /\ nBusReads = 0
    /\ startPos = 0 /\ ioFault = "none" /\ requested = 0 /\ origin = "none"
    /\ sfrOutcome = "none" /\ sfrFailed = FALSE /\ rcrFailed = FALSE
    /\ stopIterations = 0

\* ------------------------------------------------------ construction
\* The client has a reader object to call: constructed, whatever happened since.
Constructed == pc["main"] \notin {"new", "dead"}

ResetCallHistory ==
    /\ lastIO' = "none" /\ sawBusy' = FALSE /\ nPinLow' = 0 /\ nBusReads' = 0
    /\ ioFault' = "none" /\ origin' = "none" /\ sfrOutcome' = "none"
    /\ startPos' = busPos /\ requested' = 0

\* RadarCubeReader.__init__: validate, derive the dimensions, construct the
\* SpiFtdiFrameReader; every exception of that constructor is re-raised as
\* RuntimeError.
RadarCubeReader__init__ ==
    /\ pc["main"] = "new" /\ client = "cube"
    /\ IF ~ValidCubeArgs(args)
       THEN /\ result' = "ValueError"
            /\ pc' = [pc EXCEPT !["main"] = "dead"]
            /\ UNCHANGED <<rcrVars, sfrCfg, sfrHandles, devVars>>
       ELSE \E e \in SfrInitEnv :
              LET d == DerivedDims(args)
                  r == SfrInit(CubeBytes(d), args.max_chunk_size, e)
              IN /\ dims' = d
                 /\ radar_cube_n_bytes' = CubeBytes(d)
                 /\ spi_state' = r.spi_state
                 /\ terminate_calls' = terminate_calls + r.terminated
                 /\ IF r.exc = "none"
                    THEN /\ _spi_reader' = "SpiFtdiFrameReader"
                         /\ frame_length' = CubeBytes(d)
                         /\ max_chunk_size' = args.max_chunk_size
                         /\ _spi' = "SpiController" /\ _port' = "SpiPort"
                         /\ _gpio_port' = "GpioPort"
                         /\ result' = "constructed"
                         /\ pc' = [pc EXCEPT !["main"] = "idle"]
                    ELSE /\ result' = "RuntimeError"
                         /\ pc' = [pc EXCEPT !["main"] = "dead"]
                         /\ UNCHANGED <<_spi_reader, sfrCfg, sfrHandles>>
    /\ UNCHANGED <<cfgVars, busPos, localVars, raw_frame_bytes, pending,
                   close_raised, cube, calls, ioHist, startPos, origin,
                   sfrOutcome, sfrFailed, stopIterations>>
    /\ op' = "__init__" /\ rcrFailed' = rcrFailed
    /\ UNCHANGED <<rcVars, demoVars>>

\* SpiFtdiFrameReader.__init__, called by the client itself.
SpiFtdiFrameReader__init__ ==
    /\ pc["main"] = "new" /\ client = "frame"
    /\ \E e \in SfrInitEnv :
         LET r == SfrInit(args.frame_length, args.max_chunk_size, e)
         IN /\ spi_state' = r.spi_state
            /\ terminate_calls' = terminate_calls + r.terminated
            /\ IF r.exc = "none"
               THEN /\ frame_length' = args.frame_length
                    /\ max_chunk_size' = args.max_chunk_size
                    /\ _spi' = "SpiController" /\ _port' = "SpiPort"
                    /\ _gpio_port' = "GpioPort"
                    /\ result' = "constructed"
                    /\ pc' = [pc EXCEPT !["main"] = "idle"]
               ELSE /\ result' = r.exc
                    /\ pc' = [pc EXCEPT !["main"] = "dead"]
                    /\ UNCHANGED <<sfrCfg, sfrHandles>>
    /\ UNCHANGED <<cfgVars, rcrVars, busPos, localVars, raw_frame_bytes, pending,
                   close_raised, cube, calls, ioHist, startPos, origin,
                   sfrOutcome, sfrFailed, stopIterations>>
    /\ op' = "__init__" /\ rcrFailed' = rcrFailed
    /\ UNCHANGED <<rcVars, demoVars>>

\* ------------------------------------------ SpiFtdiFrameReader.__next__
\* Mutant of EnterSfrNext: a call takes up the remainder a failed call left.
EnterSfrNextResumes ==
    /\ remaining_bytes' = IF remaining_bytes > 0 THEN remaining_bytes
                          ELSE frame_length
    /\ frame_data' = <<>>
    /\ pc' = [pc EXCEPT !["main"] = "sfr_loop"]

\* Mutant of EnterSfrNext: the buffer of the previous call is kept.
EnterSfrNextKeepsBuffer ==
    /\ remaining_bytes' = frame_length
    /\ frame_data' = frame_data
    /\ pc' = [pc EXCEPT !["main"] = "sfr_loop"]

\* remaining_bytes = self.frame_length; frame_data = bytearray()
EnterSfrNext ==
    /\ remaining_bytes' = frame_length
    /\ frame_data' = <<>>
    /\ pc' = [pc EXCEPT !["main"] = "sfr_loop"]

\* Mutant of SfrRaise: the failure reaches the client as RuntimeError (the
\* `except Exception` handler taken instead of `except StopIteration`).
SfrRaiseAsRuntimeError ==
    /\ sfrOutcome' = "raised"
    /\ sfrFailed' = TRUE
    /\ IF client = "cube"
       THEN /\ pending' = "RuntimeError"
            /\ origin' = "frame_reader"
            /\ rcrFailed' = TRUE
            /\ pc' = [pc EXCEPT !["main"] = "rcr_close"]
            /\ result' = result
       ELSE /\ result' = "RuntimeError"
            /\ pc' = [pc EXCEPT !["main"] = "idle"]
            /\ UNCHANGED <<pending, origin, rcrFailed>>

\* Mutant of SfrRaise: a failure sends the call back to the poll loop.
SfrRaiseRetries ==
    /\ sfrOutcome' = sfrOutcome
    /\ sfrFailed' = sfrFailed
    /\ pc' = [pc EXCEPT !["main"] = "sfr_poll"]
    /\ UNCHANGED <<pending, origin, rcrFailed, result>>

\* Every exception inside __next__ leaves it as StopIteration (the handlers at
\* the pin read, at the chunk read and around the loop all raise it).  Under a
\* RadarCubeReader the `except StopIteration` handler runs next: close(), then
\* re-raise.
SfrRaise ==
    /\ sfrOutcome' = "raised"
    /\ sfrFailed' = TRUE
    /\ IF client = "cube"
       THEN /\ pending' = "StopIteration"
            /\ origin' = "frame_reader"
            /\ rcrFailed' = TRUE
            /\ pc' = [pc EXCEPT !["main"] = "rcr_close"]
            /\ result' = result
       ELSE /\ result' = "StopIteration"
            /\ pc' = [pc EXCEPT !["main"] = "idle"]
            /\ UNCHANGED <<pending, origin, rcrFailed>>

\* The client calls next() on its bare SpiFtdiFrameReader.
SpiFtdiFrameReader__next__ ==
    /\ pc["main"] = "idle" /\ client = "frame" /\ calls < MaxCalls
    /\ calls' = calls + 1
    /\ result' = "running"
    /\ ResetCallHistory
    /\ EnterSfrNext
    /\ UNCHANGED <<cfgVars, rcrVars, sfrCfg, sfrHandles, devVars, busPos,
                   raw_frame_bytes, pending, close_raised, cube, ioTick,
                   sfrFailed, stopIterations>>
    /\ op' = "__next__" /\ rcrFailed' = rcrFailed
    /\ UNCHANGED <<rcVars, demoVars>>

\* SpiFtdiFrameReader.__iter__: return self.
SpiFtdiFrameReader__iter__ ==
    /\ pc["main"] = "idle" /\ client = "frame" /\ calls < MaxCalls
    /\ calls' = calls + 1
    /\ result' = "self"
    /\ UNCHANGED <<cfgVars, rcrVars, sfrCfg, sfrHandles, devVars, busPos, pc,
                   localVars, raw_frame_bytes, pending, close_raised, cube,
                   ioHist, startPos, origin, sfrOutcome, sfrFailed,
                   stopIterations>>
    /\ op' = "__iter__" /\ rcrFailed' = rcrFailed
    /\ UNCHANGED <<rcVars, demoVars>>

\* Mutant of SfrLoop: the loop also ends when the port is gone
\* (while remaining_bytes > 0 and self._port is not None), so a close() from
\* another thread makes the call return what it has read so far.
SfrLoopEndsWhenClosed ==
    /\ pc["main"] = "sfr_loop"
    /\ IF remaining_bytes > 0 /\ _port # "None"
       THEN /\ pc' = [pc EXCEPT !["main"] = "sfr_poll"]
            /\ UNCHANGED <<raw_frame_bytes, sfrOutcome, result>>
       ELSE /\ raw_frame_bytes' = frame_data
            /\ sfrOutcome' = "returned"
            /\ IF client = "cube"
               THEN /\ pc' = [pc EXCEPT !["main"] = "rcr_parse"]
                    /\ result' = result
               ELSE /\ pc' = [pc EXCEPT !["main"] = "idle"]
                    /\ result' = "frame"
    /\ UNCHANGED <<cfgVars, rcrVars, sfrCfg, sfrHandles, devVars, busPos,
                   localVars, pending, close_raised, cube, calls, ioHist,
                   startPos, origin, sfrFailed, stopIterations, op, rcrFailed,
                   rcVars, demoVars>>

\* while remaining_bytes > 0: ... ; return frame_data
SfrLoop ==
    /\ pc["main"] = "sfr_loop"
    /\ IF remaining_bytes > 0
       THEN /\ pc' = [pc EXCEPT !["main"] = "sfr_poll"]
            /\ UNCHANGED <<raw_frame_bytes, sfrOutcome, result>>
       ELSE /\ raw_frame_bytes' = frame_data
            /\ sfrOutcome' = "returned"
            /\ IF client = "cube"
               THEN /\ pc' = [pc EXCEPT !["main"] = "rcr_parse"]
                    /\ result' = result
               ELSE /\ pc' = [pc EXCEPT !["main"] = "idle"]
                    /\ result' = "frame"
    /\ UNCHANGED <<cfgVars, rcrVars, sfrCfg, sfrHandles, devVars, busPos,
                   localVars, pending, close_raised, cube, calls, ioHist,
                   startPos, origin, sfrFailed, stopIterations>>
    /\ UNCHANGED <<op, rcrFailed>>
    /\ UNCHANGED <<rcVars, demoVars>>

\* What gpio.read() can do: return a pin word, or raise (-1).  On a terminated
\* controller it raises.
PinOutcomes == IF spi_state = "open" THEN PinValues \cup {-1} ELSE {-1}

\* One pass of the busy-wait loop: gpio_state = self._gpio_port.read(); break
\* when the SPI_BUSY bit is 0.
SfrPoll ==
    /\ pc["main"] = "sfr_poll"
    /\ IF _gpio_port = "None"
       THEN /\ SfrRaise
            /\ UNCHANGED ioHist
       ELSE \E o \in PinOutcomes :
              /\ ioTick' = 1 - ioTick
              /\ nBusReads' = nBusReads
              /\ requested' = requested
              /\ IF o = -1
                 THEN /\ lastIO' = "pin_error"
                      /\ ioFault' = "pin_error"
                      /\ UNCHANGED <<nPinLow, sawBusy>>
                      /\ SfrRaise
                 ELSE /\ lastIO' = IF BusyLineLow(o) THEN "pin_low" ELSE "pin_high"
                      /\ sawBusy' = (sawBusy \/ ~BusyLineLow(o))
                      /\ nPinLow' = IF BusyLineLow(o) THEN nPinLow + 1 ELSE nPinLow
                      /\ ioFault' = ioFault
                      /\ pc' = [pc EXCEPT !["main"] =
                                   IF IsReady(o) THEN "sfr_read" ELSE "sfr_poll"]
                      /\ UNCHANGED <<pending, origin, result, sfrOutcome, sfrFailed,
                                     rcrFailed>>
    /\ UNCHANGED <<cfgVars, rcrVars, sfrCfg, sfrHandles, devVars, busPos,
                   localVars, raw_frame_bytes, close_raised, cube, calls,
                   startPos, stopIterations>>
    /\ op' = op
    /\ UNCHANGED <<rcVars, demoVars>>

\* What port.read(n) can do: raise (-1) or return some number of bytes (none,
\* fewer, exactly n, more).  On a terminated controller it raises.
BusOutcomes(n) ==
    IF spi_state = "open"
    THEN {-1} \cup {L \in {0, n - 4, n - 1, n, n + 4} : L >= 0}
    ELSE {-1}

\* chunk_size = min(...); the port check; chunk = self._port.read(chunk_size);
\* the two length checks; the lane swap into frame_data; remaining_bytes -=
\* chunk_size.
SfrRead ==
    /\ pc["main"] = "sfr_read"
    /\ LET chunk_size == ChunkSize(remaining_bytes, max_chunk_size)
       IN IF _port = "None"
          THEN /\ SfrRaise
               /\ UNCHANGED <<ioHist, busPos, localVars>>
          ELSE \E L \in BusOutcomes(chunk_size) :
                 LET chunk == IF L = -1 THEN <<>> ELSE StreamBytes(seed, busPos, L)
                 IN /\ ioTick' = 1 - ioTick
                    /\ lastIO' = "bus"
                    /\ requested' = chunk_size
                    /\ nBusReads' = nBusReads + 1
                    /\ UNCHANGED <<nPinLow, sawBusy>>
                    /\ busPos' = busPos + Len(chunk)
                    /\ ioFault' = IF L = -1 THEN "bus_error"
                                  ELSE IF L = 0 THEN "empty_read"
                                  ELSE IF L # chunk_size THEN "size_mismatch"
                                  ELSE ioFault
                    /\ IF \/ L = -1
                          \/ ~ChunkAccepted(chunk, chunk_size)
                          \/ Len(chunk) < chunk_size   \* chunk[i] raises IndexError
                       THEN /\ SfrRaise
                            /\ UNCHANGED localVars
                       ELSE /\ frame_data' = frame_data \o LaneSwap(chunk, chunk_size)
                            /\ remaining_bytes' = remaining_bytes - chunk_size
                            /\ pc' = [pc EXCEPT !["main"] = "sfr_loop"]
                            /\ UNCHANGED <<pending, origin, result, sfrOutcome,
                                           sfrFailed, rcrFailed>>
    /\ UNCHANGED <<cfgVars, rcrVars, sfrCfg, sfrHandles, devVars,
                   raw_frame_bytes, close_raised, cube, calls, startPos,
                   stopIterations>>
    /\ op' = op
    /\ UNCHANGED <<rcVars, demoVars>>

\* The type of the object __next__ returns: frame_data = bytearray() is
\* returned as it is, not converted to bytes.
ReturnedFrameType == "bytearray"

\* The consumer of a bare frame reader assigns to the first item of the frame
\* it was handed (frame[0] = v).  A bytearray takes the assignment; on bytes
\* it would raise TypeError and change nothing.  One write per frame.
ConsumerWritesFrame ==
    /\ pc["main"] = "idle" /\ client = "frame" /\ result = "frame"
    /\ Len(raw_frame_bytes) > 0
    /\ raw_frame_bytes = frame_data
    /\ IF ReturnedFrameType = "bytearray"
       THEN raw_frame_bytes' =
              [raw_frame_bytes EXCEPT ![1] = (@ + 1) % 256]
       ELSE raw_frame_bytes' = raw_frame_bytes
    /\ op' = "write"
    /\ UNCHANGED <<cfgVars, rcrVars, sfrCfg, sfrHandles, devVars, busPos, pc,
                   localVars, pending, close_raised, result, cube, calls,
                   ioHist, startPos, origin, sfrOutcome, sfrFailed, rcrFailed,
                   stopIterations, rcVars, demoVars>>

\* ----------------------------------------------------- RadarCubeReader
\* RadarCubeReader.__iter__: raise RuntimeError when closed, else return self.
RadarCubeReader__iter__ ==
    /\ pc["main"] = "idle" /\ client = "cube" /\ calls < MaxCalls
    /\ calls' = calls + 1
    /\ result' = IF IsClosed(_spi_reader) THEN "RuntimeError" ELSE "self"
    /\ UNCHANGED <<cfgVars, rcrVars, sfrCfg, sfrHandles, devVars, busPos, pc,
                   localVars, raw_frame_bytes, pending, close_raised, cube,
                   ioHist, startPos, origin, sfrOutcome, sfrFailed,
                   stopIterations>>
    /\ op' = "__iter__" /\ rcrFailed' = rcrFailed
    /\ UNCHANGED <<rcVars, demoVars>>

\* RadarCubeReader.__next__, its first statement: raise RuntimeError when
\* closed; otherwise go on into the try block.
RadarCubeReader__next__ ==
    /\ pc["main"] = "idle" /\ client = "cube" /\ calls < MaxCalls
    /\ calls' = calls + 1
    /\ ResetCallHistory
    /\ IF IsClosed(_spi_reader)
       THEN /\ result' = "RuntimeError"
            /\ pc' = pc
       ELSE /\ result' = "running"
            /\ pc' = [pc EXCEPT !["main"] = "rcr_next"]
    /\ UNCHANGED <<cfgVars, rcrVars, sfrCfg, sfrHandles, devVars, busPos,
                   localVars, raw_frame_bytes, pending, close_raised, cube,
                   ioTick, sfrFailed, stopIterations>>
    /\ op' = "__next__" /\ rcrFailed' = rcrFailed
    /\ UNCHANGED <<rcVars, demoVars>>

\* raw_frame_bytes = next(self._spi_reader): next(None) raises TypeError, which
\* the `except Exception` handler turns into close() and RuntimeError.
RcrCallNext ==
    /\ pc["main"] = "rcr_next"
    /\ IF _spi_reader = "None"
       THEN /\ pending' = "RuntimeError"
            /\ origin' = "reader_none"
            /\ rcrFailed' = TRUE
            /\ pc' = [pc EXCEPT !["main"] = "rcr_close"]
            /\ UNCHANGED localVars
       ELSE /\ EnterSfrNext
            /\ UNCHANGED <<pending, origin, rcrFailed>>
    /\ UNCHANGED <<cfgVars, rcrVars, sfrCfg, sfrHandles, devVars, busPos,
                   raw_frame_bytes, close_raised, result, cube, calls, ioHist,
                   startPos, sfrOutcome, sfrFailed, stopIterations>>
    /\ op' = op
    /\ UNCHANGED <<rcVars, demoVars>>

\* radar_cube = self._parse_frame(raw_frame_bytes); return radar_cube.  A
\* ValueError of the parser goes to close() and RuntimeError.  The parser ends
\* in RadarCube1D(radar_cube_data_interleaved, interleaved=True): a 3-D array,
\* no timestamp.
RcrParse ==
    /\ pc["main"] = "rcr_parse"
    /\ IF ParseRejects(raw_frame_bytes, radar_cube_n_bytes, dims)
       THEN /\ pending' = "RuntimeError"
            /\ origin' = "parser"
            /\ rcrFailed' = TRUE
            /\ pc' = [pc EXCEPT !["main"] = "rcr_close"]
            /\ UNCHANGED <<result, cube>>
       ELSE /\ cube' = ParseFrame(raw_frame_bytes, dims)
            /\ result' = "cube"
            /\ pc' = [pc EXCEPT !["main"] = "idle"]
            /\ UNCHANGED <<pending, origin, rcrFailed>>
    /\ IF ParseRejects(raw_frame_bytes, radar_cube_n_bytes, dims)
       THEN UNCHANGED rcVars
       ELSE LET no_timestamp == [given |-> FALSE, value |-> 0]
                r == RadarCube1D(3, TRUE, no_timestamp, now)
            IN /\ rc_pc' = "built"
               /\ timestamp' = no_timestamp
               /\ interleaved' = TRUE
               /\ data_ndim' = 3
               /\ now' = now
               /\ data_dims' = r.dims
               /\ data_name' = r.name
               /\ data_attrs' = r.attrs
    /\ UNCHANGED <<cfgVars, rcrVars, sfrCfg, sfrHandles, devVars, busPos,
                   localVars, raw_frame_bytes, close_raised, calls, ioHist,
                   startPos, sfrOutcome, sfrFailed, stopIterations, demoVars>>
    /\ op' = op

\* The lengths of the frames an arbitrary iterator could hand to the parser
\* where n bytes are expected.
AnyFrameLengths(n) == {L \in {0, n - 4, n - 2, n, n + 4} : L >= 0}

\* raw_frame_bytes = next(self._spi_reader), with the frame reader taken as an
\* iterator of which nothing but the protocol is known: it returns a bytes object
\* of some length.  SpiFtdiFrameReader itself only returns frames of
\* frame_length bytes, so the length check of _parse_frame is exercised by this
\* step alone; it belongs to SpecAnyFrame only.
RcrCallNextAnyFrame ==
    /\ pc["main"] = "rcr_next"
    /\ _spi_reader # "None"
    /\ \E L \in AnyFrameLengths(radar_cube_n_bytes) :
         raw_frame_bytes' = StreamBytes(seed, busPos, L)
    /\ sfrOutcome' = "returned"
    /\ pc' = [pc EXCEPT !["main"] = "rcr_parse"]
    /\ UNCHANGED <<cfgVars, rcrVars, sfrCfg, sfrHandles, devVars, busPos,
                   localVars, pending, close_raised, result, cube, calls,
                   ioHist, startPos, origin, sfrFailed, stopIterations>>
    /\ UNCHANGED <<op, rcrFailed>>
    /\ UNCHANGED <<rcVars, demoVars>>

\* ------------------------------------------------------------- close
\* Thread t leaves close().  The main thread is either in an exception handler
\* of __next__ (pending names what it raises next) or made an explicit call;
\* the closer thread is done.
Finish(t) ==
    /\ pc' = [pc EXCEPT ![t] = IF t = "main" THEN "idle" ELSE "finished"]
    /\ result' = IF t # "main" THEN result
                 ELSE IF pending = "none" THEN "None" ELSE pending
    /\ stopIterations' = IF t = "main" /\ pending = "StopIteration"
                         THEN stopIterations + 1 ELSE stopIterations
    /\ pending' = IF t = "main" THEN "none" ELSE pending

\* The client calls RadarCubeReader.close().
RadarCubeReader_close ==
    /\ pc["main"] = "idle" /\ client = "cube"
    /\ pc' = [pc EXCEPT !["main"] = "rcr_close"]
    /\ result' = "running"
    /\ UNCHANGED <<cfgVars, rcrVars, sfrCfg, sfrHandles, devVars, busPos,
                   localVars, raw_frame_bytes, pending, close_raised, cube,
                   calls, ioHist, startPos, origin, sfrOutcome, sfrFailed,
                   stopIterations>>
    /\ op' = "close" /\ rcrFailed' = rcrFailed
    /\ UNCHANGED <<rcVars, demoVars>>

\* The client calls SpiFtdiFrameReader.close() on its bare frame reader.
SpiFtdiFrameReader_close ==
    /\ pc["main"] = "idle" /\ client = "frame"
    /\ pc' = [pc EXCEPT !["main"] = "sfr_close"]
    /\ result' = "running"
    /\ UNCHANGED <<cfgVars, rcrVars, sfrCfg, sfrHandles, devVars, busPos,
                   localVars, raw_frame_bytes, pending, close_raised, cube,
                   calls, ioHist, startPos, origin, sfrOutcome, sfrFailed,
                   stopIterations>>
    /\ op' = "close" /\ rcrFailed' = rcrFailed
    /\ UNCHANGED <<rcVars, demoVars>>

\* RadarCubeReader.close: `if self._spi_reader:` ... else print and return.
RcrCloseCheck(t) ==
    /\ pc[t] = "rcr_close"
    /\ IF _spi_reader # "None"
       THEN /\ pc' = [pc EXCEPT ![t] = "rcr_close_call"]
            /\ UNCHANGED <<result, stopIterations, pending>>
       ELSE Finish(t)
    /\ UNCHANGED <<cfgVars, rcrVars, sfrCfg, sfrHandles, devVars, busPos,
                   localVars, raw_frame_bytes, close_raised, cube, calls,
                   ioHist, startPos, origin, sfrOutcome, sfrFailed>>
    /\ UNCHANGED <<op, rcrFailed>>
    /\ UNCHANGED <<rcVars, demoVars>>

\* self._spi_reader.close(): on None this is an AttributeError, which the
\* `except Exception` of close() prints; the finally clause follows.
RcrCloseCall(t) ==
    /\ pc[t] = "rcr_close_call"
    /\ pc' = [pc EXCEPT ![t] = IF _spi_reader = "None" THEN "rcr_close_fin"
                               ELSE "sfr_close"]
    /\ UNCHANGED <<cfgVars, rcrVars, sfrCfg, sfrHandles, devVars, busPos,
                   localVars, raw_frame_bytes, pending, close_raised, result,
                   cube, calls, ioHist, startPos, origin, sfrOutcome,
                   sfrFailed, stopIterations>>
    /\ UNCHANGED <<op, rcrFailed>>
    /\ UNCHANGED <<rcVars, demoVars>>

\* Mutant of SfrCloseTerminate: close() does not terminate the controller.
SfrCloseSkipsTerminate(t) ==
    /\ pc[t] = "sfr_close"
    /\ pc' = [pc EXCEPT ![t] = "sfr_close_fin"]
    /\ close_raised' = [close_raised EXCEPT ![t] = FALSE]
    /\ UNCHANGED <<cfgVars, rcrVars, sfrCfg, sfrHandles, devVars, busPos,
                   localVars, raw_frame_bytes, pending, result, cube, calls,
                   ioHist, startPos, origin, sfrOutcome, sfrFailed,
                   stopIterations, op, rcrFailed, rcVars, demoVars>>

\* SpiFtdiFrameReader.close, the try block: `if self._spi: self._spi.terminate()`.
\* terminate() releases the device and may still raise.
SfrCloseTerminate(t) ==
    /\ pc[t] = "sfr_close"
    /\ pc' = [pc EXCEPT ![t] = "sfr_close_fin"]
    /\ IF _spi # "None"
       THEN \E raises \in BOOLEAN :
              /\ spi_state' = "terminated"
              /\ terminate_calls' = terminate_calls + 1
              /\ close_raised' = [close_raised EXCEPT ![t] = raises]
       ELSE /\ close_raised' = [close_raised EXCEPT ![t] = FALSE]
            /\ UNCHANGED devVars
    /\ UNCHANGED <<cfgVars, rcrVars, sfrCfg, sfrHandles, busPos, localVars,
                   raw_frame_bytes, pending, result, cube, calls, ioHist,
                   startPos, origin, sfrOutcome, sfrFailed, stopIterations>>
    /\ UNCHANGED <<op, rcrFailed>>
    /\ UNCHANGED <<rcVars, demoVars>>

\* Mutant of SfrCloseFinally: the handles are cleared after terminate() in
\* straight-line code, not in a finally clause, so a raising terminate() leaves
\* them in place.
SfrCloseClearsUnlessRaised(t) ==
    /\ pc[t] = "sfr_close_fin"
    /\ IF close_raised[t]
       THEN UNCHANGED sfrHandles
       ELSE _gpio_port' = "None" /\ _port' = "None" /\ _spi' = "None"
    /\ close_raised' = close_raised
    /\ IF client = "cube"
       THEN /\ pc' = [pc EXCEPT ![t] = "rcr_close_fin"]
            /\ UNCHANGED <<result, stopIterations, pending>>
       ELSE IF close_raised[t] /\ t = "main"
       THEN /\ pc' = [pc EXCEPT ![t] = "idle"]
            /\ result' = "Exception"
            /\ UNCHANGED <<stopIterations, pending>>
       ELSE Finish(t)
    /\ UNCHANGED <<cfgVars, rcrVars, sfrCfg, devVars, busPos, localVars,
                   raw_frame_bytes, cube, calls, ioHist, startPos, origin,
                   sfrOutcome, sfrFailed, op, rcrFailed, rcVars, demoVars>>

\* SpiFtdiFrameReader.close, the finally clause: the three handles become None;
\* an exception of terminate() then propagates.  RadarCubeReader.close catches
\* and prints it; a bare frame reader's caller gets it.
SfrCloseFinally(t) ==
    /\ pc[t] = "sfr_close_fin"
    /\ _gpio_port' = "None" /\ _port' = "None" /\ _spi' = "None"
    /\ close_raised' = close_raised
    /\ IF client = "cube"
       THEN /\ pc' = [pc EXCEPT ![t] = "rcr_close_fin"]
            /\ UNCHANGED <<result, stopIterations, pending>>
       ELSE IF close_raised[t] /\ t = "main"
       THEN /\ pc' = [pc EXCEPT ![t] = "idle"]
            /\ result' = "Exception"
            /\ UNCHANGED <<stopIterations, pending>>
       ELSE Finish(t)
    /\ UNCHANGED <<cfgVars, rcrVars, sfrCfg, devVars, busPos, localVars,
                   raw_frame_bytes, cube, calls, ioHist, startPos, origin,
                   sfrOutcome, sfrFailed>>
    /\ UNCHANGED <<op, rcrFailed>>
    /\ UNCHANGED <<rcVars, demoVars>>

\* Mutant of RcrCloseFinally: the finally clause forgets self._spi_reader = None.
RcrCloseFinallyKeepsReader(t) ==
    /\ pc[t] = "rcr_close_fin"
    /\ Finish(t)
    /\ UNCHANGED <<cfgVars, rcrVars, sfrCfg, sfrHandles,
                   devVars, busPos, localVars, raw_frame_bytes, close_raised,
                   cube, calls, ioHist, startPos, origin, sfrOutcome,
                   sfrFailed, op, rcrFailed>>
    /\ UNCHANGED <<rcVars, demoVars>>

\* RadarCubeReader.close, the finally clause: self._spi_reader = None.
RcrCloseFinally(t) ==
    /\ pc[t] = "rcr_close_fin"
    /\ _spi_reader' = "None"
    /\ Finish(t)
    /\ UNCHANGED <<cfgVars, radar_cube_n_bytes, dims, sfrCfg, sfrHandles,
                   devVars, busPos, localVars, raw_frame_bytes, close_raised,
                   cube, calls, ioHist, startPos, origin, sfrOutcome,
                   sfrFailed>>
    /\ UNCHANGED <<op, rcrFailed>>
    /\ UNCHANGED <<rcVars, demoVars>>

\* Another thread calls close() on the reader while the main thread uses it
\* (the examples' main thread does so in its finally clause, while the reader
\* thread is inside next()).
CloserStart ==
    /\ pc["closer"] = "idle" /\ Constructed
    /\ pc' = [pc EXCEPT !["closer"] = IF client = "cube" THEN "rcr_close"
                                      ELSE "sfr_close"]
    /\ UNCHANGED <<cfgVars, rcrVars, sfrCfg, sfrHandles, devVars, busPos,
                   localVars, raw_frame_bytes, pending, close_raised, result,
                   cube, calls, ioHist, startPos, origin, sfrOutcome,
                   sfrFailed, stopIterations>>
    /\ UNCHANGED <<op, rcrFailed>>
    /\ UNCHANGED <<rcVars, demoVars>>

\* ---------------------------------------------------------- RadarCube1D
\* RadarCube1D.__init__: choose the dimension names, call RadarCube.__init__,
\* add 'interleaved' to the attrs.
RadarCube1D__init__ ==
    /\ rc_pc = "new"
    /\ LET r == RadarCube1D(data_ndim, interleaved, timestamp, now)
       IN IF r.exc # "none"
          THEN /\ rc_pc' = r.exc
               /\ UNCHANGED rcObject
          ELSE /\ rc_pc' = "built"
               /\ data_dims' = r.dims
               /\ data_name' = r.name
               /\ data_attrs' = r.attrs
    /\ UNCHANGED <<readerVars, rcArgs, demoVars>>

\* ------------------------------------------------------ specifications
Construct == RadarCubeReader__init__ \/ SpiFtdiFrameReader__init__

FrameReaderStep ==
    \/ SpiFtdiFrameReader__next__
    \/ SpiFtdiFrameReader__iter__
    \/ SfrLoop
    \/ SfrPoll
    \/ SfrRead
    \/ SpiFtdiFrameReader_close

CubeReaderStep ==
    \/ RadarCubeReader__iter__
    \/ RadarCubeReader__next__
    \/ RcrCallNext
    \/ RcrParse
    \/ RadarCubeReader_close

CloseStep(t) ==
    \/ RcrCloseCheck(t)
    \/ RcrCloseCall(t)
    \/ SfrCloseTerminate(t)
    \/ SfrCloseFinally(t)
    \/ RcrCloseFinally(t)

\* One client thread: every call runs to its end before the next one starts.
Next == Construct \/ FrameReaderStep \/ CubeReaderStep \/ CloseStep("main")

Spec == Init /\ [][Next]_vars

\* The client thread and a second thread that calls close() once, at any time.
NextConc == Next \/ CloserStart \/ CloseStep("closer")

SpecConc == Init /\ [][NextConc]_vars

\* The client thread over a frame reader that may return a frame of any length.
NextAnyFrame == Next \/ RcrCallNextAnyFrame

SpecAnyFrame == Init /\ [][NextAnyFrame]_vars

\* The steps of a running SpiFtdiFrameReader.__next__ call, and the poll in
\* which the sensor has pulled SPI_BUSY low.
SfrRun == SfrLoop \/ SfrPoll \/ SfrRead
SfrPollLow == SfrPoll /\ lastIO' = "pin_low"

\* The single client thread, with a running call that keeps executing and a
\* sensor that pulls SPI_BUSY low in every wait.
SpecFair == Spec /\ WF_vars(SfrRun) /\ WF_vars(SfrPollLow)

\* A client constructs one RadarCube1D from a data array, with or without a
\* timestamp; the readers are not involved.
InitCubeObject ==
    /\ NoDemo
    /\ rc_pc = "new"
    /\ timestamp \in TimestampArgs /\ interleaved \in BOOLEAN
    /\ data_ndim \in NdimValues /\ now \in ClockValues
    /\ data_dims = <<>> /\ data_name = "none"
    /\ data_attrs = [keys |-> {}, timestamp |-> 0, interleaved |-> FALSE]
    /\ client = "cube"
    /\ args = [num_tx_antennas |-> 1, num_rx_antennas |-> 1,
               num_range_bins |-> 4, num_chirps_per_frame |-> 1,
               frame_length |-> 0, max_chunk_size |-> DEFAULT_MAX_CHUNK_SIZE]
    /\ seed = 3
    /\ _spi_reader = "None" /\ radar_cube_n_bytes = 0 /\ dims = NoDims
    /\ frame_length = 0 /\ max_chunk_size = 0
    /\ _spi = "None" /\ _port = "None" /\ _gpio_port = "None"
    /\ spi_state = "absent" /\ terminate_calls = 0 /\ busPos = 0
    /\ pc = [t \in Threads |-> IF t = "main" THEN "dead" ELSE "idle"]
    /\ remaining_bytes = 0 /\ frame_data = <<>> /\ raw_frame_bytes = <<>>
    /\ pending = "none" /\ close_raised = [t \in Threads |-> FALSE]
    /\ result = "none" /\ cube = <<>>
    /\ op = "none" /\ calls = 0 /\ ioTick = 0 /\ lastIO = "none"
    /\ sawBusy = FALSE /\ nPinLow = 0 /\ nBusReads = 0
    /\ startPos = 0 /\ ioFault = "none" /\ requested = 0 /\ origin = "none"
    /\ sfrOutcome = "none" /\ sfrFailed = FALSE /\ rcrFailed = FALSE
    /\ stopIterations = 0

NextCubeObject == RadarCube1D__init__

SpecCubeObject == InitCubeObject /\ [][NextCubeObject]_vars

\* The client thread of a bare frame reader that also writes to the frames it
\* was handed.
NextConsumer == Next \/ ConsumerWritesFrame

SpecConsumer == Init /\ [][NextConsumer]_vars

\* Every way a RadarCube1D comes into being: a client constructs one itself,
\* or pulls one from a RadarCubeReader.
InitCubes == Init \/ InitCubeObject

NextCubes == Next \/ NextCubeObject

SpecCubes == InitCubes /\ [][NextCubes]_vars

\* ------------------------------------------------------------ the examples
\* example.py and examples/demo_display_rangeprofile.py: spi_read_thread pulls
\* cubes from the reader and publishes the first range profile of each in
\* shared_data_state; update_plot, a timer callback of the main thread, copies
\* the four entries.  Both touch the dictionary inside `with frame_lock`.
\* A cube is known by its number in the stream, and so is its range profile.
MaxFrames == 3

\* What time.time() may return.
DemoClock == {5, 6}

\* The reader thread and the timer are started; nothing else of the model runs.
InitDemo ==
    /\ NoCubeObject
    /\ client = "cube"
    /\ args = [num_tx_antennas |-> 1, num_rx_antennas |-> 1,
               num_range_bins |-> 4, num_chirps_per_frame |-> 1,
               frame_length |-> 0, max_chunk_size |-> DEFAULT_MAX_CHUNK_SIZE]
    /\ seed = 3
    /\ _spi_reader = "None" /\ radar_cube_n_bytes = 0 /\ dims = NoDims
    /\ frame_length = 0 /\ max_chunk_size = 0
    /\ _spi = "None" /\ _port = "None" /\ _gpio_port = "None"
    /\ spi_state = "absent" /\ terminate_calls = 0 /\ busPos = 0
    /\ pc = [t \in Threads |-> IF t = "main" THEN "dead" ELSE "idle"]
    /\ remaining_bytes = 0 /\ frame_data = <<>> /\ raw_frame_bytes = <<>>
    /\ pending = "none" /\ close_raised = [t \in Threads |-> FALSE]
    /\ result = "none" /\ cube = <<>>
    /\ op = "none" /\ calls = 0 /\ ioTick = 0 /\ lastIO = "none"
    /\ sawBusy = FALSE /\ nPinLow = 0 /\ nBusReads = 0
    /\ startPos = 0 /\ ioFault = "none" /\ requested = 0 /\ origin = "none"
    /\ sfrOutcome = "none" /\ sfrFailed = FALSE /\ rcrFailed = FALSE
    /\ stopIterations = 0
    /\ shared_data_state = InitialSharedState /\ frame_lock = "free"
    /\ spi_read_thread = ThreadAt("for") /\ update_plot = PlotAt("idle")
    /\ published = <<>>

\* `for cube in reader:` the reader hands over its next cube, or the iteration
\* ends (StopIteration, or an exception the thread prints).
ThreadNextCube ==
    /\ spi_read_thread.pc = "for"
    /\ \/ /\ spi_read_thread.cube < MaxFrames
          /\ spi_read_thread' = [spi_read_thread EXCEPT
                                    !.pc = "timestamp", !.cube = @ + 1]
       \/ spi_read_thread' = [spi_read_thread EXCEPT !.pc = "finished"]
    /\ UNCHANGED <<readerVars, rcVars, shared_data_state, frame_lock,
                   update_plot, published>>

\* current_frame_timestamp = time.time()
ThreadTimestamp ==
    /\ spi_read_thread.pc = "timestamp"
    /\ \E t \in DemoClock :
         spi_read_thread' = [spi_read_thread EXCEPT
                                !.pc = "slice", !.current_frame_timestamp = t]
    /\ UNCHANGED <<readerVars, rcVars, shared_data_state, frame_lock,
                   update_plot, published>>

\* latest_frame_data = cube.data.isel(virt_antenna=0, doppler_chirp=0).values;
\* on an exception the frame is skipped (continue).
ThreadSlice ==
    /\ spi_read_thread.pc = "slice"
    /\ \/ spi_read_thread' = [spi_read_thread EXCEPT
                                 !.pc = "acquire",
                                 !.latest_frame_data = spi_read_thread.cube]
       \/ spi_read_thread' = [spi_read_thread EXCEPT !.pc = "for"]
    /\ UNCHANGED <<readerVars, rcVars, shared_data_state, frame_lock,
                   update_plot, published>>

\* Mutant of ThreadAcquire: the thread enters the block without the lock.
ThreadEntersUnlocked ==
    /\ spi_read_thread.pc = "acquire"
    /\ spi_read_thread' = [spi_read_thread EXCEPT !.pc = "store_prev"]
    /\ UNCHANGED <<readerVars, rcVars, shared_data_state, frame_lock,
                   update_plot, published>>

\* with frame_lock: (the thread waits until the lock is free)
ThreadAcquire ==
    /\ spi_read_thread.pc = "acquire"
    /\ frame_lock = "free"
    /\ frame_lock' = "spi_read_thread"
    /\ spi_read_thread' = [spi_read_thread EXCEPT !.pc = "store_prev"]
    /\ UNCHANGED <<readerVars, rcVars, shared_data_state, update_plot,
                   published>>

\* shared_data_state["prev_timestamp"] = shared_data_state["timestamp"]
ThreadStorePrev ==
    /\ spi_read_thread.pc = "store_prev"
    /\ shared_data_state' = [shared_data_state EXCEPT
                                !.prev_timestamp = shared_data_state.timestamp]
    /\ spi_read_thread' = [spi_read_thread EXCEPT !.pc = "store_timestamp"]
    /\ UNCHANGED <<readerVars, rcVars, frame_lock, update_plot, published>>

\* shared_data_state["timestamp"] = current_frame_timestamp
ThreadStoreTimestamp ==
    /\ spi_read_thread.pc = "store_timestamp"
    /\ shared_data_state' =
         [shared_data_state EXCEPT
             !.timestamp = spi_read_thread.current_frame_timestamp]
    /\ spi_read_thread' = [spi_read_thread EXCEPT !.pc = "store_frame"]
    /\ UNCHANGED <<readerVars, rcVars, frame_lock, update_plot, published>>

\* shared_data_state["frame"] = latest_frame_data
ThreadStoreFrame ==
    /\ spi_read_thread.pc = "store_frame"
    /\ shared_data_state' =
         [shared_data_state EXCEPT !.frame = spi_read_thread.latest_frame_data]
    /\ spi_read_thread' = [spi_read_thread EXCEPT !.pc = "count"]
    /\ UNCHANGED <<readerVars, rcVars, frame_lock, update_plot, published>>

\* shared_data_state["frame_count"] += 1
ThreadCount ==
    /\ spi_read_thread.pc = "count"
    /\ shared_data_state' = [shared_data_state EXCEPT !.frame_count = @ + 1]
    /\ spi_read_thread' = [spi_read_thread EXCEPT !.pc = "release"]
    /\ UNCHANGED <<readerVars, rcVars, frame_lock, update_plot, published>>

\* The end of the with block: the lock is released and the frame is published.
ThreadRelease ==
    /\ spi_read_thread.pc = "release"
    /\ frame_lock' = "free"
    /\ published' = Append(published,
                           [frame |-> spi_read_thread.latest_frame_data,
                            timestamp |->
                                spi_read_thread.current_frame_timestamp])
    /\ spi_read_thread' = [spi_read_thread EXCEPT !.pc = "for"]
    /\ UNCHANGED <<readerVars, rcVars, shared_data_state, update_plot>>

\* update_plot is called by the animation timer; with frame_lock:
PlotAcquire ==
    /\ update_plot.pc = "idle"
    /\ frame_lock = "free"
    /\ frame_lock' = "update_plot"
    /\ update_plot' = [update_plot EXCEPT !.pc = "read_frame"]
    /\ UNCHANGED <<readerVars, rcVars, shared_data_state, spi_read_thread,
                   published>>

\* current_frame_data = shared_data_state["frame"]
PlotReadFrame ==
    /\ update_plot.pc = "read_frame"
    /\ update_plot' = [update_plot EXCEPT
                          !.pc = "read_timestamp",
                          !.current_frame_data = shared_data_state.frame]
    /\ UNCHANGED <<readerVars, rcVars, shared_data_state, frame_lock,
                   spi_read_thread, published>>

\* frame_timestamp = shared_data_state["timestamp"]
PlotReadTimestamp ==
    /\ update_plot.pc = "read_timestamp"
    /\ update_plot' = [update_plot EXCEPT
                          !.pc = "read_prev",
                          !.frame_timestamp = shared_data_state.timestamp]
    /\ UNCHANGED <<readerVars, rcVars, shared_data_state, frame_lock,
                   spi_read_thread, published>>

\* prev_timestamp = shared_data_state["prev_timestamp"]
PlotReadPrev ==
    /\ update_plot.pc = "read_prev"
    /\ update_plot' = [update_plot EXCEPT
                          !.pc = "read_count",
                          !.prev_timestamp = shared_data_state.prev_timestamp]
    /\ UNCHANGED <<readerVars, rcVars, shared_data_state, frame_lock,
                   spi_read_thread, published>>

\* frame_count = shared_data_state["frame_count"]
PlotReadCount ==
    /\ update_plot.pc = "read_count"
    /\ update_plot' = [update_plot EXCEPT
                          !.pc = "release",
                          !.frame_count = shared_data_state.frame_count]
    /\ UNCHANGED <<readerVars, rcVars, shared_data_state, frame_lock,
                   spi_read_thread, published>>

\* The end of the with block; the rest of update_plot works on the copies.
PlotRelease ==
    /\ update_plot.pc = "release"
    /\ frame_lock' = "free"
    /\ update_plot' = [update_plot EXCEPT !.pc = "render"]
    /\ UNCHANGED <<readerVars, rcVars, shared_data_state, spi_read_thread,
                   published>>

\* update_plot sets the plot lines and texts from its copies and returns.
PlotRender ==
    /\ update_plot.pc = "render"
    /\ update_plot' = [update_plot EXCEPT !.pc = "idle"]
    /\ UNCHANGED <<readerVars, rcVars, shared_data_state, frame_lock,
                   spi_read_thread, published>>

ReaderThreadStep ==
    \/ ThreadNextCube
    \/ ThreadTimestamp
    \/ ThreadSlice
    \/ ThreadAcquire
    \/ ThreadStorePrev
    \/ ThreadStoreTimestamp
    \/ ThreadStoreFrame
    \/ ThreadCount
    \/ ThreadRelease

PlotStep ==
    \/ PlotAcquire
    \/ PlotReadFrame
    \/ PlotReadTimestamp
    \/ PlotReadPrev
    \/ PlotReadCount
    \/ PlotRelease
    \/ PlotRender

NextDemo == ReaderThreadStep \/ PlotStep

SpecDemo == InitDemo /\ [][NextDemo]_vars

\* ===================================================================
\* Properties
\* ===================================================================
\* The main thread is between two calls, and its last call was __next__.
NextCompleted == pc["main"] = "idle" /\ op = "__next__"

\* The frame a call assembles from the stream position it started at, stated on
\* the stream alone: byte i of the frame is the byte of its 4-byte group taken
\* from the other end.  No chunk size occurs in it.
ExpectedFrame(s, pos, n) ==
    [i \in 1 .. n |->
        WireByte(s, pos + 4 * ((i - 1) \div 4) + (3 - ((i - 1) % 4)))]

\* C1 (as claimed): whatever SpiFtdiFrameReader.__next__ returns has exactly
\* frame_length bytes, for every frame_length and max_chunk_size the constructor
\* accepts.  The constructor accepts frame_length = -4, and the call then
\* returns an empty buffer.
C1_ReturnedFrameHasFrameLength ==
    sfrOutcome = "returned" => Len(raw_frame_bytes) = frame_length

\* C2: readiness gating.  A bus read is issued only in a step whose last I/O
\* was a pin read that saw SPI_BUSY low (so never after a high one, and with no
\* other pin or bus read in between), and after such a pin read the next thing
\* __next__ does is exactly one bus read.
C2_ReadinessGating ==
    [][/\ (nBusReads' = nBusReads + 1) => lastIO = "pin_low"
       /\ lastIO = "pin_low" => (lastIO' = "bus" /\ nBusReads' = nBusReads + 1)
      ]_vars

\* C2 witness: a call that saw the line busy, then low, and has issued its
\* second bus read.
C2_Witness == lastIO = "bus" /\ sawBusy /\ nBusReads = 2 /\ nPinLow = 2

\* C3: when the bus returned no bytes or a wrong number of bytes for a chunk,
\* RadarCubeReader.__next__ does not reach the parser, it fails, and it leaves
\* the reader closed: _spi_reader is None and the controller is terminated.
C3_ShortReadClosesReader ==
    (client = "cube" /\ ioFault \in {"empty_read", "size_mismatch"}) =>
        /\ pc["main"] # "rcr_parse"
        /\ result # "cube"
        /\ NextCompleted =>
             /\ result \in {"StopIteration", "RuntimeError"}
             /\ _spi_reader = "None"
             /\ spi_state = "terminated" /\ terminate_calls >= 1

\* C3 witness: a pull that failed on a wrong-sized second chunk.
C3_Witness ==
    /\ client = "cube" /\ NextCompleted /\ ioFault = "size_mismatch"
    /\ nBusReads = 2 /\ result = "StopIteration" /\ _spi_reader = "None"

\* C4 (as claimed): after a failed SpiFtdiFrameReader.__next__ the frame reader
\* itself is closed (handles released, controller terminated) and no later call
\* on it returns a frame.  A bare SpiFtdiFrameReader stays open.
C4_FailureClosesFrameReader ==
    (sfrFailed /\ pc["main"] = "idle") =>
        /\ _spi = "None" /\ _port = "None" /\ _gpio_port = "None"
        /\ spi_state = "terminated"
        /\ sfrOutcome # "returned"

\* C5: Closed is terminal for RadarCubeReader.  Once _spi_reader is None it
\* stays None, no pin or bus read happens any more, and every __iter__ or
\* __next__ call ends at once in RuntimeError, without a cube.
C5_ClosedIsTerminal ==
    [][(client = "cube" /\ Constructed /\ _spi_reader = "None") =>
          /\ _spi_reader' = "None"
          /\ ioTick' = ioTick
          /\ cube' = cube
          /\ (calls' # calls) =>
                (result' = "RuntimeError" /\ pc'["main"] = "idle")
      ]_vars

\* C5 witness: a __next__ on a reader that an earlier failure closed, answered
\* by the closed test.
C5_Witness ==
    /\ client = "cube" /\ NextCompleted /\ _spi_reader = "None"
    /\ rcrFailed /\ origin = "none" /\ result = "RuntimeError"

\* C6: StopIteration leaves RadarCubeReader.__next__ at most once; when it
\* does, the controller has been terminated and the reader is closed, and every
\* later pull ends in RuntimeError.
C6_EndOfSequenceOnce ==
    [][client = "cube" =>
          /\ stopIterations' <= 1
          /\ (stopIterations' # stopIterations) =>
                (spi_state' = "terminated" /\ terminate_calls' >= 1
                 /\ _spi_reader' = "None")
          /\ (stopIterations = 1 /\ calls' # calls) =>
                (result' = "RuntimeError" /\ pc'["main"] = "idle")
      ]_vars

\* C6 witness: the pull after the one that raised StopIteration.
C6_Witness ==
    /\ client = "cube" /\ stopIterations = 1 /\ calls = 2
    /\ NextCompleted /\ result = "RuntimeError"

C8_ReadErrorIsRuntimeError ==
    (client = "cube" /\ NextCompleted /\ ioFault # "none") =>
        result = "RuntimeError"

\* C9: a successful SpiFtdiFrameReader.__next__ has issued exactly
\* ceil(frame_length / max_chunk_size) bus reads and has seen the line low
\* exactly as often, for frame_length > 0 and max_chunk_size > 0.
C9_ReadCount ==
    (sfrOutcome = "returned" /\ frame_length > 0 /\ max_chunk_size > 0) =>
        /\ nBusReads = CeilDiv(frame_length, max_chunk_size)
        /\ nPinLow = nBusReads

\* C9 witness: a 16-byte frame read in chunks of 12 and 4.
C9_Witness ==
    /\ sfrOutcome = "returned" /\ frame_length = 16 /\ max_chunk_size = 12
    /\ nBusReads = 2

\* C10: chunking invariance.  The frame a call returns is ExpectedFrame of the
\* bytes the bus delivered from the call's start, and the cube is the parse of
\* that: neither depends on max_chunk_size.
C10_ChunkingInvariance ==
    /\ sfrOutcome = "returned" =>
          raw_frame_bytes = ExpectedFrame(seed, startPos, frame_length)
    /\ (client = "cube" /\ NextCompleted /\ result = "cube") =>
          cube = ParseFrame(ExpectedFrame(seed, startPos, frame_length), dims)

\* C10 witness: the second cube of a reader whose chunks (12 bytes) do not
\* divide the frame.
C10_Witness ==
    /\ client = "cube" /\ NextCompleted /\ result = "cube" /\ calls = 2
    /\ max_chunk_size = 12 /\ nBusReads >= 2 /\ startPos > 0

\* ---------------------------------------------------------- round trip
\* The two bytes of an int16 value, little-endian: k = 0 is the low byte.
Int16Byte(v, k) ==
    LET u == IF v < 0 THEN v + 65536 ELSE v
    IN IF k = 0 THEN u % 256 ELSE u \div 256

\* Byte i (0-based) of the array X, given in canonical (range-bin, virtual
\* antenna, doppler chirp) order, when it is serialised in wire order (chirp,
\* antenna, range bin) as little-endian (real, imag) int16 pairs.
SerialisedByte(X, d, i) ==
    LET j == i \div 4
        r == j % d.num_range_bins
        a == (j \div d.num_range_bins) % d.num_virt_antennas
        c == j \div (d.num_range_bins * d.num_virt_antennas)
        sample == X[r + 1][a + 1][c + 1]
        k == i % 4
    IN IF k < 2 THEN Int16Byte(sample[1], k) ELSE Int16Byte(sample[2], k - 2)

\* What the bus carries for X: the serialisation with every 4-byte group
\* reversed to [D, C, B, A].
BusImage(X, d) ==
    [i \in 1 .. CubeBytes(d) |->
        SerialisedByte(X, d, 4 * ((i - 1) \div 4) + (3 - ((i - 1) % 4)))]

\* Every sample of X is a pair of int16 values.
IsInt16Array(X) ==
    \A r \in DOMAIN X : \A a \in DOMAIN X[r] : \A c \in DOMAIN X[r][a] :
        /\ X[r][a][c][1] \in -32768 .. 32767
        /\ X[r][a][c][2] \in -32768 .. 32767

\* C11: round trip.  The cube a pull returns is an array X of int16 pairs whose
\* bus image is exactly what the bus delivered during the pull, and the lane
\* correction followed by the parser maps that bus image back to X.
C11_RoundTrip ==
    (client = "cube" /\ NextCompleted /\ result = "cube") =>
        /\ IsInt16Array(cube)
        /\ BusImage(cube, dims) = StreamBytes(seed, startPos, frame_length)
        /\ ParseFrame(LaneSwap(BusImage(cube, dims), frame_length), dims) = cube

\* C11 witness: a returned cube with more than one antenna and more than one
\* chirp that holds a negative sample, read in more than one chunk.
C11_Witness ==
    /\ client = "cube" /\ NextCompleted /\ result = "cube"
    /\ dims.num_virt_antennas > 1 /\ dims.num_doppler_chirps > 1
    /\ nBusReads > 1
    /\ \E r \in DOMAIN cube : cube[r][2][2][2] < 0

\* ------------------------------------------------------- construction
\* The arguments break a construction constraint of the class the client
\* constructs.
ConstraintViolated ==
    IF client = "cube"
    THEN ~ValidCubeArgs(args) \/ args.max_chunk_size % 4 # 0
    ELSE args.frame_length % 4 # 0 \/ args.max_chunk_size % 4 # 0

\* C12: a violated construction constraint makes the constructor fail before a
\* controller exists: afterwards there is no reader object, no frame reader
\* inside it, no handle, and no controller was created, opened or terminated.
C12_InvalidConfigFailsEarly ==
    (pc["main"] # "new" /\ ConstraintViolated) =>
        /\ pc["main"] = "dead"
        /\ result \in {"ValueError", "RuntimeError"}
        /\ _spi_reader = "None"
        /\ _spi = "None" /\ _port = "None" /\ _gpio_port = "None"
        /\ spi_state = "absent" /\ terminate_calls = 0

\* C12 witness: num_range_bins = 3 rejected by RadarCubeReader.
C12_Witness ==
    /\ client = "cube" /\ pc["main"] = "dead" /\ args.num_range_bins = 3
    /\ result = "ValueError" /\ spi_state = "absent"

\* C13 (as claimed, from the docstring of RadarCubeReader.__init__): the
\* constructor raises ValueError exactly when a parameter is invalid,
\* spi_max_chunk_size included, and RuntimeError only for a transport that
\* cannot be initialised.  A chunk size of 6 comes out as RuntimeError.
C13_InvalidParameterIsValueError ==
    (client = "cube" /\ pc["main"] = "dead") =>
        (result = "ValueError" <=> ConstraintViolated)

\* C14: for every configuration RadarCubeReader's constructor accepts, the
\* derived dimensions and the frame length handed to the frame reader are the
\* stated products, and the frame length is positive and a multiple of 4.
C14_DerivedDimensions ==
    (client = "cube" /\ Constructed) =>
        /\ dims.num_range_bins = args.num_range_bins
        /\ dims.num_virt_antennas = args.num_tx_antennas * args.num_rx_antennas
        /\ dims.num_doppler_chirps * args.num_tx_antennas
             = args.num_chirps_per_frame
        /\ frame_length = dims.num_virt_antennas * dims.num_range_bins
                            * dims.num_doppler_chirps * 4
        /\ radar_cube_n_bytes = frame_length
        /\ frame_length > 0 /\ frame_length % 4 = 0

\* C14 witness: two TX and two RX antennas, two chirps: 4 x 4 x 1 samples.
C14_Witness ==
    /\ client = "cube" /\ Constructed
    /\ args.num_tx_antennas = 2 /\ args.num_rx_antennas = 2
    /\ args.num_chirps_per_frame = 2 /\ frame_length = 64

\* --------------------------------------------------------- parse errors
\* C15: a frame whose length is not radar_cube_n_bytes never becomes a cube:
\* the parser raises, __next__ closes the reader (frame reader released,
\* controller terminated) and raises RuntimeError, and no later pull produces a
\* cube.
C15_LengthMismatchTerminates ==
    /\ (/\ client = "cube" /\ op = "__next__" /\ sfrOutcome = "returned"
        /\ Len(raw_frame_bytes) # radar_cube_n_bytes
        /\ pc["main"] # "rcr_parse") =>
          /\ result # "cube"
          /\ origin = "parser"
          /\ pc["main"] = "idle" =>
               /\ result = "RuntimeError"
               /\ _spi_reader = "None"
               /\ spi_state = "terminated" /\ terminate_calls >= 1
    /\ rcrFailed => result # "cube"

\* C15 witness: a frame four bytes too long was rejected and the pull after it
\* met a closed reader.
C15_Witness ==
    /\ client = "cube" /\ NextCompleted /\ calls = 2 /\ rcrFailed
    /\ Len(raw_frame_bytes) = radar_cube_n_bytes + 4
    /\ result = "RuntimeError" /\ _spi_reader = "None"

\* ------------------------------------------------------------ metadata
\* C16 (as claimed, from the docstring of RadarCube.__init__): a supplied
\* timestamp is the cube's 'timestamp', whatever its value, and the clock is
\* used only when None is passed.  A supplied 0 is replaced by the clock.
C16_SuppliedTimestampKept ==
    rc_pc = "built" =>
        /\ "timestamp" \in data_attrs.keys
        /\ data_attrs.timestamp = (IF timestamp.given THEN timestamp.value
                                   ELSE now)

C18_CloseInterruptsCall ==
    [][(/\ pc["main"] \in {"sfr_poll", "sfr_read"}
        /\ pc["closer"] \in {"sfr_close_fin", "rcr_close_fin", "finished"}
        /\ (pc'["main"] # pc["main"] \/ ioTick' # ioTick))
       => /\ sfrOutcome' = "raised"
          /\ pc'["main"] \notin {"sfr_loop", "sfr_poll", "sfr_read"}
      ]_vars

\* C18 witness: a pull that had seen the pin busy and then found the handles
\* gone, after the other thread's close() had finished.
C18_Witness ==
    /\ client = "cube" /\ pc["closer"] = "finished"
    /\ sfrOutcome = "raised" /\ sawBusy /\ ioFault = "none"
    /\ origin = "frame_reader" /\ pc["main"] = "rcr_close"

\* ------------------------------------------------------------ ordering
\* C19: frames come in acquisition order and nothing is buffered.  While a
\* frame is assembled, the buffer holds exactly the bytes read since the call
\* started, in the order read; a returned cube is the parse of the bytes read
\* during its own pull, all of them; and the bus is read only inside a running
\* call, so no byte of the next frame is fetched before the caller asks.
C19_InOrderNoBuffering ==
    /\ [](/\ pc["main"] \in {"sfr_loop", "sfr_poll", "sfr_read"} =>
               /\ frame_data = ExpectedFrame(seed, startPos, Len(frame_data))
               /\ busPos = startPos + Len(frame_data)
          /\ (client = "cube" /\ NextCompleted /\ result = "cube") =>
               /\ cube = ParseFrame(ExpectedFrame(seed, startPos, frame_length),
                                    dims)
               /\ busPos = startPos + frame_length)
    /\ [][/\ (busPos' # busPos \/ nBusReads' > nBusReads) =>
               (pc["main"] = "sfr_read" /\ result = "running")
          /\ (calls' # calls /\ op' = "__next__") => startPos' = busPos
         ]_vars

\* C19 witness: the second cube, built from the second group of bus reads.
C19_Witness ==
    /\ client = "cube" /\ NextCompleted /\ result = "cube" /\ calls = 2
    /\ startPos = frame_length /\ busPos = 2 * frame_length /\ nBusReads >= 2

\* -------------------------------------------------------------- retry
\* C20: no retry.  After a failed pin read, a failed bus read, or a bus read
\* that returned no bytes or a wrong number of bytes, the call issues no
\* further pin read and no further bus read.
C20_NoRetry ==
    [][(ioFault # "none" /\ calls' = calls) =>
          (ioTick' = ioTick /\ nBusReads' = nBusReads /\ nPinLow' = nPinLow
           /\ busPos' = busPos)
      ]_vars

\* C20 witness: a call that ended on a wrong-sized second chunk.
C20_Witness ==
    /\ client = "frame" /\ NextCompleted /\ ioFault = "size_mismatch"
    /\ nBusReads = 2 /\ result = "StopIteration"

\* ------------------------------------------------------------ chunking
\* What C21 says of one step: a bus read asks for min(remaining,
\* max_chunk_size) bytes, a positive multiple of 4 not above max_chunk_size,
\* and an accepted chunk lowers remaining by exactly that.
ChunkStepOk ==
    /\ (nBusReads' = nBusReads + 1) =>
          /\ requested' = Min(remaining_bytes, max_chunk_size)
          /\ requested' > 0 /\ requested' <= max_chunk_size
          /\ requested' % 4 = 0
    /\ (pc["main"] = "sfr_read" /\ remaining_bytes' # remaining_bytes) =>
          /\ remaining_bytes' = remaining_bytes - requested'
          /\ remaining_bytes' < remaining_bytes

\* What C21 says of remaining: inside a call it is a non-negative multiple of 4.
RemainingOk ==
    pc["main"] \in {"sfr_loop", "sfr_poll", "sfr_read"} =>
        (remaining_bytes >= 0 /\ remaining_bytes % 4 = 0)

\* C21 (as claimed): for every frame_length and max_chunk_size the constructor
\* accepts, remaining is a non-negative multiple of 4 throughout a call and
\* every bus read asks for a positive multiple of 4 not above max_chunk_size.
\* The constructor accepts frame_length = -4 (remaining starts at -4) and
\* max_chunk_size = 0 (the bus read asks for 0 bytes).
C21_ChunkBoundsAlways ==
    /\ RemainingOk
    /\ lastIO = "bus" =>
          /\ requested > 0 /\ requested <= max_chunk_size
          /\ requested % 4 = 0

\* C21, for frame_length >= 0 and max_chunk_size > 0 only: the chunk bounds
\* hold, remaining strictly decreases with every accepted chunk.
C21_ChunkBounds ==
    /\ [][(frame_length >= 0 /\ max_chunk_size > 0) => ChunkStepOk]_vars
    /\ []((frame_length >= 0 /\ max_chunk_size > 0) => RemainingOk)

\* C21 witness: a 16-byte frame whose second read asked for the remaining 4
\* bytes after a first chunk of 12.
C21_Witness ==
    /\ sfrOutcome = "returned" /\ frame_length = 16 /\ max_chunk_size = 12
    /\ nBusReads = 2 /\ requested = 4 /\ remaining_bytes = 0

\* ------------------------------------------------------ lane correction
\* C22: lane correction.  A returned frame has as many bytes as were received;
\* for every 4-byte group k its bytes 4k .. 4k+3 are the received bytes 4k+3,
\* 4k+2, 4k+1, 4k, whatever chunk the group arrived in; and the transform is an
\* involution: applied to the frame it gives the received bytes back, applied
\* twice to the received bytes it changes nothing.
C22_LaneCorrection ==
    (sfrOutcome = "returned" /\ frame_length > 0) =>
        LET received == StreamBytes(seed, startPos, frame_length)
        IN /\ Len(raw_frame_bytes) = Len(received)
           /\ \A k \in 0 .. (frame_length \div 4) - 1 : \A j \in 0 .. 3 :
                 raw_frame_bytes[4 * k + j + 1] = received[4 * k + (3 - j) + 1]
           /\ LaneSwap(raw_frame_bytes, frame_length) = received
           /\ LaneSwap(LaneSwap(received, frame_length), frame_length) = received

\* C22 witness: an 8-byte frame read in two chunks of one group each.
C22_Witness ==
    /\ client = "frame" /\ sfrOutcome = "returned" /\ frame_length = 8
    /\ max_chunk_size = 4 /\ nBusReads = 2 /\ Len(raw_frame_bytes) = 8

\* -------------------------------------------------------------- parsing
\* The signed 16-bit little-endian integer at byte offset off (0-based).
SignedLE16At(frame, off) ==
    LET u == frame[off + 1] + 256 * frame[off + 2]
    IN IF u >= 32768 THEN u - 65536 ELSE u

\* C23: a parsed cube has shape (num_range_bins, num_virt_antennas,
\* num_doppler_chirps); its element [r][a][c] is the sample at flat wire index
\* (c * V + a) * R + r, real part the little-endian int16 at byte 4 * index,
\* imaginary part the one at byte 4 * index + 2; a frame of zeros parses to a
\* cube of zeros.
C23_ParseLayout ==
    /\ (client = "cube" /\ NextCompleted /\ result = "cube") =>
          /\ Len(cube) = dims.num_range_bins
          /\ \A r \in 1 .. dims.num_range_bins :
               /\ Len(cube[r]) = dims.num_virt_antennas
               /\ \A a \in 1 .. dims.num_virt_antennas :
                    /\ Len(cube[r][a]) = dims.num_doppler_chirps
                    /\ \A c \in 1 .. dims.num_doppler_chirps :
                         LET index == ((c - 1) * dims.num_virt_antennas + (a - 1))
                                        * dims.num_range_bins + (r - 1)
                         IN cube[r][a][c] =
                              <<SignedLE16At(raw_frame_bytes, 4 * index),
                                SignedLE16At(raw_frame_bytes, 4 * index + 2)>>
    /\ (client = "cube" /\ Constructed) =>
          ParseFrame([i \in 1 .. radar_cube_n_bytes |-> 0], dims)
            = [r \in 1 .. dims.num_range_bins |->
                [a \in 1 .. dims.num_virt_antennas |->
                  [c \in 1 .. dims.num_doppler_chirps |-> <<0, 0>>]]]

\* C23 witness: a first cube of 4 range bins, 2 antennas and 2 chirps.
C23_Witness ==
    /\ client = "cube" /\ NextCompleted /\ result = "cube" /\ calls = 1
    /\ dims.num_virt_antennas = 2 /\ dims.num_doppler_chirps = 2
    /\ Len(cube) = 4 /\ Len(cube[1]) = 2 /\ Len(cube[1][1]) = 2

\* ----------------------------------------------------------------- tags
\* C24: a cube pulled from a RadarCubeReader is tagged interleaved = true and
\* has the dimension names (rangebin, virt_antenna, doppler_chirp); every
\* RadarCube1D has 'timestamp' and 'interleaved' in its attrs, the flag it was
\* given, and the names (chirp, rx_antenna, rangebin) exactly when the flag is
\* false.
C24_CubeTags ==
    /\ (client = "cube" /\ NextCompleted /\ result = "cube") =>
          /\ rc_pc = "built"
          /\ data_attrs.interleaved = TRUE
          /\ data_dims = <<"rangebin", "virt_antenna", "doppler_chirp">>
    /\ rc_pc = "built" =>
          /\ {"timestamp", "interleaved"} \subseteq data_attrs.keys
          /\ data_attrs.interleaved = interleaved
          /\ data_dims = <<"chirp", "rx_antenna", "rangebin">> <=> ~interleaved
          /\ interleaved =>
               data_dims = <<"rangebin", "virt_antenna", "doppler_chirp">>

\* C24 witness: a cube pulled from the reader, with its tags.
C24_Witness ==
    /\ client = "cube" /\ NextCompleted /\ result = "cube" /\ rc_pc = "built"
    /\ data_attrs.keys = {"timestamp", "interleaved"}
    /\ data_attrs.interleaved /\ data_attrs.timestamp = now

\* ------------------------------------------------------ per-call buffer
\* C25: every SpiFtdiFrameReader.__next__ call starts from an empty buffer and
\* the full frame length, whatever the call before it did; a returned frame
\* therefore holds only bytes read during its own call, so bytes read by a
\* failed call appear in no later frame.
C25_FreshBufferPerCall ==
    /\ [](sfrOutcome = "returned" =>
            /\ raw_frame_bytes = ExpectedFrame(seed, startPos, frame_length)
            /\ Len(raw_frame_bytes) = busPos - startPos)
    /\ [][(/\ pc'["main"] = "sfr_loop"
           /\ pc["main"] \notin {"sfr_loop", "sfr_poll", "sfr_read"}) =>
             (frame_data' = <<>> /\ remaining_bytes' = frame_length)
         ]_vars

\* C25 witness: a bare frame reader returned a frame in the call after one that
\* had read bytes and failed.
C25_Witness ==
    /\ client = "frame" /\ NextCompleted /\ calls = 2 /\ sfrFailed
    /\ sfrOutcome = "returned" /\ startPos > 0 /\ frame_length > 0

\* ---------------------------------------------------------- immutability
\* C26 (as claimed, and as the comment at the return statement says): the
\* frame SpiFtdiFrameReader.__next__ returned is immutable, so whatever the
\* consumer does, it still holds the bytes it was returned with.  The call
\* returns its bytearray, and a consumer's item assignment changes it.
C26_ReturnedFrameImmutable ==
    (client = "frame" /\ pc["main"] = "idle" /\ result = "frame") =>
        raw_frame_bytes = ExpectedFrame(seed, startPos, frame_length)

\* ------------------------------------------------------ close, repeated
HandlesCleared == _spi = "None" /\ _port = "None" /\ _gpio_port = "None"

\* C27 (as claimed), the part that overlapping calls break: the controller of
\* a RadarCubeReader is terminated at most once.
C27_TerminatedAtMostOnce ==
    (client = "cube" /\ Constructed) => terminate_calls <= 1

\* C27: close() is total and idempotent.  An explicit RadarCubeReader.close()
\* returns None and leaves _spi_reader None, in whatever state it found the
\* reader; so does a close() made by another thread.  Whoever is past the
\* finally clause of SpiFtdiFrameReader.close finds the three handles None,
\* whether terminate() raised or not.  The controller is terminated at most
\* once by calls that do not overlap: a second terminate() happens only while
\* another thread's close() stands between its own terminate() and its
\* finally clause, and there is never a third.
C27_CloseIdempotentTotal ==
    /\ [](/\ (client = "cube" /\ pc["main"] = "idle" /\ op = "close") =>
               (result = "None" /\ _spi_reader = "None" /\ HandlesCleared)
          /\ (client = "cube" /\ pc["closer"] = "finished") =>
               (_spi_reader = "None" /\ HandlesCleared)
          /\ (client = "frame" /\ pc["main"] = "idle" /\ op = "close") =>
               (result \in {"None", "Exception"} /\ HandlesCleared)
          /\ \A t \in Threads : pc[t] = "rcr_close_fin" => HandlesCleared
          /\ Constructed => terminate_calls <= 2)
    /\ [][(Constructed /\ terminate_calls' > terminate_calls
           /\ terminate_calls >= 1)
          => \E t \in Threads : pc[t] = "sfr_close_fin" /\ pc'[t] = pc[t]
         ]_vars

\* C27 witness: a cube reader whose __next__ had failed and closed it, with
\* terminate() raising inside that close, is closed again by its client: the
\* second close returned None, nothing was terminated a second time, and the
\* reader and the handles are None.
C27_Witness ==
    /\ client = "cube" /\ pc["main"] = "idle" /\ op = "close"
    /\ rcrFailed /\ close_raised["main"] /\ pc["closer"] = "idle"
    /\ terminate_calls = 1 /\ result = "None"
    /\ _spi_reader = "None" /\ HandlesCleared

\* ------------------------------------------------- close during __next__
\* C28: with a close() from another thread landing anywhere in a running
\* RadarCubeReader.__next__, the call ends by returning a cube or by raising;
\* a returned cube is the parse of the frame_length bytes read during the call,
\* and only a complete frame ever reaches the parser; once the other thread's
\* close() has finished the reader is closed, and stays closed.
C28_CloseDuringNext ==
    /\ (client = "cube" /\ NextCompleted) =>
           result \in {"cube", "StopIteration", "RuntimeError"}
    /\ (client = "cube" /\ NextCompleted /\ result = "cube") =>
           /\ Len(raw_frame_bytes) = frame_length
           /\ frame_length = radar_cube_n_bytes
           /\ raw_frame_bytes = ExpectedFrame(seed, startPos, frame_length)
           /\ busPos = startPos + frame_length
           /\ cube = ParseFrame(raw_frame_bytes, dims)
    /\ (client = "cube" /\ pc["main"] = "rcr_parse") =>
           /\ Len(raw_frame_bytes) = frame_length
           /\ remaining_bytes = 0
    /\ (client = "cube" /\ pc["closer"] = "finished") => IsClosed(_spi_reader)

\* C28 witness, close landing between the closed-check and the read: the call
\* got past `if self._spi_reader is None`, found the reader gone at
\* next(self._spi_reader), and raised.
C28_Witness ==
    /\ client = "cube" /\ NextCompleted /\ result = "RuntimeError"
    /\ origin = "reader_none" /\ pc["closer"] = "finished"
    /\ IsClosed(_spi_reader)

\* C28 witness, close landing between two chunks: the first chunk of a frame
\* of several had been read when the call found its handles gone, and it raised
\* with the partial frame discarded.
C28_WitnessBetweenChunks ==
    /\ client = "cube" /\ NextCompleted /\ result = "StopIteration"
    /\ pc["closer"] = "finished" /\ ioFault = "none"
    /\ nBusReads >= 1 /\ 0 < Len(frame_data) /\ Len(frame_data) < frame_length
    /\ busPos = startPos + Len(frame_data)

\* ------------------------------------------------- failed construction
\* C29 (as claimed): a SpiFtdiFrameReader construction that failed, at whatever
\* setup step and with whatever exception, leaves no controller open.  The
\* `except UsbToolsError` handler re-raises without terminate(), so a
\* UsbToolsError from a step after configure() leaves the controller open.
C29_NoControllerLeftOpen ==
    (op = "__init__" /\ pc["main"] = "dead") => spi_state # "open"

\* ------------------------------------------ the examples' shared dictionary
\* The entries of shared_data_state after the k-th published frame.
SnapshotAfter(k) ==
    IF k = 0 THEN InitialSharedState
    ELSE [frame |-> published[k].frame,
          timestamp |-> published[k].timestamp,
          prev_timestamp |-> IF k = 1 THEN DemoNone
                             ELSE published[k - 1].timestamp,
          frame_count |-> k]

\* The four copies update_plot took.
PlotCopies ==
    [frame |-> update_plot.current_frame_data,
     timestamp |-> update_plot.frame_timestamp,
     prev_timestamp |-> update_plot.prev_timestamp,
     frame_count |-> update_plot.frame_count]

\* C30: update_plot works on a consistent snapshot.  While it holds the lock
\* the dictionary is the one left by the last published frame and frame_count
\* is the number of frames published; the four copies it leaves the with block
\* with are the entries after that frame: the frame, its timestamp, the
\* timestamp of the frame published just before it (None for the first) and
\* its number, however the reader thread moves in between and afterwards.
C30_ConsistentSnapshot ==
    /\ frame_lock # "spi_read_thread" =>
           shared_data_state = SnapshotAfter(Len(published))
    /\ update_plot.pc = "release" =>
           /\ PlotCopies = shared_data_state
           /\ update_plot.frame_count = Len(published)
    /\ update_plot.pc = "render" =>
           /\ update_plot.frame_count \in 0 .. Len(published)
           /\ PlotCopies = SnapshotAfter(update_plot.frame_count)

\* C30 witness: update_plot renders its snapshot of the second frame (two
\* different timestamps) while the reader thread, inside its with block, has
\* already stored the third frame's timestamp.
C30_Witness ==
    /\ update_plot.pc = "render" /\ update_plot.frame_count = 2
    /\ update_plot.prev_timestamp # update_plot.frame_timestamp
    /\ frame_lock = "spi_read_thread"
    /\ spi_read_thread.pc = "store_frame"
    /\ shared_data_state.timestamp # update_plot.frame_timestamp

====
